---- MODULE Spec2Model ----
(***************************************************************************)
(* BloomSphere front end: the question-generator workflow                 *)
(* (QuestionGenerator), the paper scorer (PaperScorer) and the file       *)
(* uploader (FileUploader) they both embed, as one state machine.         *)
(*                                                                         *)
(* Execution is single-threaded and event-driven: a click handler runs to *)
(* completion, an async handler runs up to its next await.  Every action  *)
(* below is one such run.  A request in flight is a record holding the    *)
(* await the handler is suspended at.                                     *)
(***************************************************************************)
EXTENDS Integers, Sequences, FiniteSets, TLC

VARIABLES
    step,               \* QuestionGenerator: useState(1)
    uploadedFile,       \* QuestionGenerator: File | null
    numQuestions,       \* QuestionGenerator: {text, trueFalse, mcq}
    bloomWeights,       \* QuestionGenerator: Record<BloomCategory, number>
    isLoading,          \* QuestionGenerator
    error,              \* QuestionGenerator: string | null
    generatedQuestions, \* QuestionGenerator: GeneratedQuestion[]
    reviewFilter,       \* QuestionGenerator: QuestionType | 'all'
    isExportMenuOpen,   \* QuestionGenerator
    download,           \* QuestionGenerator: the file its last step handed to
                        \* the browser to save, if any: name and content
    genReqs,            \* handleGenerate calls suspended at an await: the
                        \* await (pc) and the uploadedFile of their closure
    uploaderFile,       \* FileUploader inside QuestionGenerator: file
    uploaderError,      \* FileUploader inside QuestionGenerator: error
    scorerUploadedFile, \* PaperScorer: uploadedFile
    questionText,       \* PaperScorer
    scorerIsLoading,    \* PaperScorer: isLoading
    scorerError,        \* PaperScorer: error
    scoreData,          \* PaperScorer: ScoreData | null
    scoreReqs,          \* handleSubmit calls suspended at an await: the
                        \* await (pc), their closure and the payload built
    scorerUploaderFile, \* FileUploader inside PaperScorer: file
    scorerUploaderError,\* FileUploader inside PaperScorer: error
    activeTab           \* App: 'generator' | 'scorer'

genVars == <<step, uploadedFile, numQuestions, bloomWeights, isLoading, error,
             generatedQuestions, reviewFilter, isExportMenuOpen, download,
             genReqs, uploaderFile, uploaderError>>

scorerVars == <<scorerUploadedFile, questionText, scorerIsLoading, scorerError,
                scoreData, scoreReqs, scorerUploaderFile, scorerUploaderError>>

vars == <<genVars, scorerVars, activeTab>>

----------------------------------------------------------------------------
(* Bounds of the model. *)

\* Largest value a question-count slider is moved to (the sliders go to 10).
MaxCount == 1
\* Longest Generate response array.
MaxResp == 2
\* Cap on handleGenerate calls suspended at the same time.
MaxReqs == 2

----------------------------------------------------------------------------
(* Values. *)

\* JavaScript null, for the object-valued states (File | null).
Null == [null |-> TRUE]

\* A string is a sequence of its pieces, so that a template literal is a
\* concatenation.  No handler ever stores the empty string in an error
\* state, and <<>> stands for the null of string | null.
NoError == <<>>

BloomCategories ==
    {"Remembering", "Understanding", "Applying", "Analyzing", "Evaluating", "Creating"}

MAX_SIZE_MB == 10
MAX_SIZE_BYTES == MAX_SIZE_MB * 1024 * 1024

\* Files the user can pick: a PDF and a PNG of the largest allowed size, a
\* PDF one byte larger, and a text file.
PdfFile == [name |-> "paper.pdf", type |-> "application/pdf", size |-> MAX_SIZE_BYTES]
BigPdfFile == [name |-> "big.pdf", type |-> "application/pdf", size |-> MAX_SIZE_BYTES + 1]
PngFile == [name |-> "scan.png", type |-> "image/png", size |-> MAX_SIZE_BYTES]
TxtFile == [name |-> "notes.txt", type |-> "text/plain", size |-> 1]
Files == {PdfFile, BigPdfFile, PngFile, TxtFile}

\* Further files: a PDF without content, a JPEG, and a PNG one byte too large.
EmptyPdfFile == [name |-> "empty.pdf", type |-> "application/pdf", size |-> 0]
JpgFile == [name |-> "scan.jpg", type |-> "image/jpeg", size |-> 1]
BigPngFile == [name |-> "big.png", type |-> "image/png", size |-> MAX_SIZE_BYTES + 1]
AllFiles == Files \cup {EmptyPdfFile, JpgFile, BigPngFile}

\* acceptedMimeTypes of the uploader inside QuestionGenerator (the default).
GenAcceptedMimeTypes == {"application/pdf"}

----------------------------------------------------------------------------
(* App renders both components at once and hides the one whose tab is not  *)
(* active: the user reaches only the controls of the active tab, while a   *)
(* suspended handler of either component resumes whatever the tab.  A      *)
(* handler of one component writes only that component's state.            *)

GenVisible == activeTab = "generator"
ScorerVisible == activeTab = "scorer"
GenOnly == UNCHANGED <<scorerVars, activeTab>>
ScorerOnly == UNCHANGED <<genVars, activeTab>>

----------------------------------------------------------------------------
(* QuestionGenerator: derived values. *)

totalWeight ==
    bloomWeights["Remembering"] + bloomWeights["Understanding"]
    + bloomWeights["Applying"] + bloomWeights["Analyzing"]
    + bloomWeights["Evaluating"] + bloomWeights["Creating"]

totalNumQuestions == numQuestions.text + numQuestions.trueFalse + numQuestions.mcq

\* disabled= of the footer's Back, Next and Generate buttons and of the
\* review pane's Regenerate button.
BackDisabled == step = 1 \/ isLoading

\* A variant of NextDisabled without the file check of step 1.
NextDisabledStepTwoOnly == step = 2 /\ totalNumQuestions = 0

NextDisabled ==
    (step = 1 /\ uploadedFile = Null) \/ (step = 2 /\ totalNumQuestions = 0)

GenerateDisabled == totalWeight = 0 \/ isLoading \/ totalNumQuestions = 0

\* A variant of RegenerateDisabled for a button without disabled=.
RegenerateNeverDisabled == FALSE

RegenerateDisabled == isLoading

\* The footer shows Next while step < 3, Generate at step 3, Start Over at
\* step 4; Regenerate is part of the step-4 pane.
\* A variant of NextShown for a footer that shows Next at step 3 too.
NextShownThroughStepThree == step < 4

NextShown == step < 3
GenerateShown == step = 3
StartOverShown == step = 4
RegenerateShown == step = 4

----------------------------------------------------------------------------
(* FileUploader inside QuestionGenerator.  renderStepContent mounts it at  *)
(* step 1 only: leaving step 1 drops its state, coming back to step 1      *)
(* mounts a new one in its initial state.                                  *)

\* The uploader's state after a handler that leaves the step at newStep.
UploaderRemount(newStep) ==
    IF step = 1 /\ newStep = 1
    THEN UNCHANGED <<uploaderFile, uploaderError>>
    ELSE uploaderFile' = Null /\ uploaderError' = NoError

\* A variant of FileChangeResult without the size check.
FileChangeResultAnySize(selectedFile, acceptedMimeTypes, fileTypeDescription) ==
    IF selectedFile = Null
    THEN [file |-> Null, error |-> NoError]
    ELSE IF selectedFile.type \notin acceptedMimeTypes
    THEN [file |-> Null,
          error |-> <<"Invalid file type. Please upload a ", fileTypeDescription, " file.">>]
    ELSE [file |-> selectedFile, error |-> NoError]

\* What handleFileChange stores for selectedFile (null: an empty FileList):
\* the file kept and the error shown.
FileChangeResult(selectedFile, acceptedMimeTypes, fileTypeDescription) ==
    IF selectedFile = Null
    THEN [file |-> Null, error |-> NoError]
    ELSE IF selectedFile.type \notin acceptedMimeTypes
    THEN [file |-> Null,
          error |-> <<"Invalid file type. Please upload a ", fileTypeDescription, " file.">>]
    ELSE IF selectedFile.size > MAX_SIZE_BYTES
    THEN [file |-> Null,
          error |-> <<"File is too large. Maximum size is ", "10", "MB.">>]
    ELSE [file |-> selectedFile, error |-> NoError]

\* The file input is rendered only while the uploader holds no file.
GenHandleFileChange(selectedFile) ==
    /\ GenVisible
    /\ GenOnly
    /\ UNCHANGED <<reviewFilter, isExportMenuOpen>>
    /\ download' = Null
    /\ step = 1
    /\ uploaderFile = Null
    /\ LET r == FileChangeResult(selectedFile, GenAcceptedMimeTypes, "PDF")
       IN /\ uploaderError' = r.error
          /\ uploaderFile' = r.file
          /\ uploadedFile' = r.file
    /\ UNCHANGED <<step, numQuestions, bloomWeights, isLoading, error,
                   generatedQuestions, genReqs>>

\* The Remove button is rendered only while the uploader holds a file.
GenHandleRemoveFile ==
    /\ GenVisible
    /\ GenOnly
    /\ UNCHANGED <<reviewFilter, isExportMenuOpen>>
    /\ download' = Null
    /\ step = 1
    /\ uploaderFile # Null
    /\ uploaderFile' = Null
    /\ uploadedFile' = Null
    /\ uploaderError' = NoError
    /\ UNCHANGED <<step, numQuestions, bloomWeights, isLoading, error,
                   generatedQuestions, genReqs>>

----------------------------------------------------------------------------
(* QuestionGenerator: configuration (step 2) and weights (step 3).         *)

QuestionCountKeys == {"text", "trueFalse", "mcq"}

\* The three count sliders are part of the step-2 pane.
handleNumQuestionChange(type, value) ==
    /\ GenVisible
    /\ GenOnly
    /\ UNCHANGED <<reviewFilter, isExportMenuOpen>>
    /\ download' = Null
    /\ step = 2
    /\ numQuestions' = [numQuestions EXCEPT ![type] = value]
    /\ UNCHANGED <<step, uploadedFile, bloomWeights, isLoading, error,
                   generatedQuestions, genReqs, uploaderFile, uploaderError>>

\* The six weight sliders are part of the step-3 pane.
handleWeightChange(category, value) ==
    /\ GenVisible
    /\ GenOnly
    /\ UNCHANGED <<reviewFilter, isExportMenuOpen>>
    /\ download' = Null
    /\ step = 3
    /\ bloomWeights' = [bloomWeights EXCEPT ![category] = value]
    /\ UNCHANGED <<step, uploadedFile, numQuestions, isLoading, error,
                   generatedQuestions, genReqs, uploaderFile, uploaderError>>

InitialWeights ==
    [c \in BloomCategories |->
        CASE c = "Evaluating" -> 10 [] c = "Creating" -> 10 [] OTHER -> 20]

PresetWeights(preset) ==
    CASE preset = "balanced" ->
            [c \in BloomCategories |->
                CASE c = "Evaluating" -> 16 [] c = "Creating" -> 16 [] OTHER -> 17]
      [] preset = "high-order" ->
            [c \in BloomCategories |->
                CASE c = "Remembering" -> 10 [] c = "Understanding" -> 10
                  [] c = "Applying" -> 15 [] c = "Analyzing" -> 25
                  [] c = "Evaluating" -> 25 [] c = "Creating" -> 15]
      [] preset = "recall" ->
            [c \in BloomCategories |->
                CASE c = "Remembering" -> 30 [] c = "Understanding" -> 30
                  [] c = "Applying" -> 15 [] c = "Analyzing" -> 10
                  [] c = "Evaluating" -> 10 [] c = "Creating" -> 5]

Presets == {"balanced", "high-order", "recall"}

applyWeightPreset(preset) ==
    /\ GenVisible
    /\ GenOnly
    /\ UNCHANGED <<reviewFilter, isExportMenuOpen>>
    /\ download' = Null
    /\ step = 3
    /\ bloomWeights' = PresetWeights(preset)
    /\ UNCHANGED <<step, uploadedFile, numQuestions, isLoading, error,
                   generatedQuestions, genReqs, uploaderFile, uploaderError>>

----------------------------------------------------------------------------
(* QuestionGenerator: footer navigation.                                   *)

Max(a, b) == IF a >= b THEN a ELSE b

\* A variant of Back that empties the question set.
BackClearsQuestions ==
    /\ GenVisible
    /\ GenOnly
    /\ UNCHANGED <<reviewFilter, isExportMenuOpen>>
    /\ download' = Null
    /\ ~BackDisabled
    /\ step' = Max(1, step - 1)
    /\ generatedQuestions' = <<>>
    /\ UploaderRemount(Max(1, step - 1))
    /\ UNCHANGED <<uploadedFile, numQuestions, bloomWeights, isLoading, error,
                   genReqs>>

\* Back: setStep(s => Math.max(1, s - 1)).
Back ==
    /\ GenVisible
    /\ GenOnly
    /\ UNCHANGED <<reviewFilter, isExportMenuOpen>>
    /\ download' = Null
    /\ ~BackDisabled
    /\ step' = Max(1, step - 1)
    /\ UploaderRemount(Max(1, step - 1))
    /\ UNCHANGED <<uploadedFile, numQuestions, bloomWeights, isLoading, error,
                   generatedQuestions, genReqs>>

\* Next: setStep(s => s + 1).
NextStep ==
    /\ GenVisible
    /\ GenOnly
    /\ UNCHANGED <<reviewFilter, isExportMenuOpen>>
    /\ download' = Null
    /\ NextShown
    /\ ~NextDisabled
    /\ step' = step + 1
    /\ UploaderRemount(step + 1)
    /\ UNCHANGED <<uploadedFile, numQuestions, bloomWeights, isLoading, error,
                   generatedQuestions, genReqs>>

\* Start Over: setStep(1); setUploadedFile(null); setGeneratedQuestions([]).
StartOver ==
    /\ GenVisible
    /\ GenOnly
    /\ UNCHANGED <<reviewFilter, isExportMenuOpen>>
    /\ download' = Null
    /\ StartOverShown
    /\ step' = 1
    /\ uploadedFile' = Null
    /\ generatedQuestions' = <<>>
    /\ UploaderRemount(1)
    /\ UNCHANGED <<numQuestions, bloomWeights, isLoading, error, genReqs>>

----------------------------------------------------------------------------
(* The Generate response and its mapping to GeneratedQuestion[].           *)

\* question_type values of the response items: the three of
\* ApiGeneratedQuestionItem and one the switch does not know.
RecognizedTags == {"text", "TrueFalse", "MCQ"}
ResponseTags == RecognizedTags \cup {"Essay"}

\* Question texts that take more than one line of the exported page.
LongText(lines) ==
    CASE lines = 35 -> "Explain, step by step, ... (35 lines)"
      [] lines = 36 -> "Discuss at length ... (36 lines)"
      [] lines = 37 -> "Compare in detail ... (37 lines)"
      [] lines = 40 -> "Transcribe ... (40 lines)"

ApiItem(tag) ==
    CASE tag = "TrueFalse" ->
            [question_type |-> tag,
             questioninfo |-> [question |-> "Water boils at 90 C.", answer |-> FALSE]]
      [] tag = "MCQ" ->
            [question_type |-> tag,
             questioninfo |-> [question |-> "Capital of France?",
                               options |-> <<"Paris", "Lyon", "Nice">>,
                               answer |-> "Paris"]]
      [] tag = "McqLyon" ->
            [question_type |-> "MCQ",
             questioninfo |-> [question |-> "Capital of France?",
                               options |-> <<"Paris", "Lyon", "Nice">>,
                               answer |-> "Lyon"]]
      [] tag = "McqNoMatch" ->
            [question_type |-> "MCQ",
             questioninfo |-> [question |-> "Capital of France?",
                               options |-> <<"Paris", "Lyon", "Nice">>,
                               answer |-> "Marseille"]]
      [] tag = "McqLong" ->
            [question_type |-> "MCQ",
             questioninfo |-> [question |-> LongText(35),
                               options |-> <<"Lyon", "Lyon">>,
                               answer |-> "Lyon"]]
      [] tag = "LongTrueFalse" ->
            [question_type |-> "TrueFalse",
             questioninfo |-> [question |-> LongText(36), answer |-> TRUE]]
      [] tag = "Text36" -> [question_type |-> "text", questioninfo |-> LongText(36)]
      [] tag = "Text37" -> [question_type |-> "text", questioninfo |-> LongText(37)]
      [] tag = "Text40" -> [question_type |-> "text", questioninfo |-> LongText(40)]
      [] OTHER ->
            [question_type |-> tag, questioninfo |-> "Define osmosis."]

\* Response arrays are named by the sequence of their items' tags.
TagSeqs == UNION {[1..n -> ResponseTags] : n \in 0..MaxResp}
ApiData(tags) == [i \in 1..Len(tags) |-> ApiItem(tags[i])]

\* A variant of MapItem that numbers the questions from 1.
MapItemOneBased(q, index) ==
    CASE q.question_type = "text" ->
            <<[id |-> index + 1, text |-> q.questioninfo, status |-> "pending",
               question_type |-> q.question_type]>>
      [] q.question_type = "TrueFalse" ->
            <<[id |-> index + 1, text |-> q.questioninfo.question, status |-> "pending",
               question_type |-> q.question_type,
               answer |-> q.questioninfo.answer]>>
      [] q.question_type = "MCQ" ->
            <<[id |-> index + 1, text |-> q.questioninfo.question, status |-> "pending",
               question_type |-> q.question_type,
               options |-> q.questioninfo.options,
               answer |-> q.questioninfo.answer]>>
      [] OTHER -> <<>>

\* A variant of MapItem that keeps an item of unknown type as a text one.
MapItemUnknownAsText(q, index) ==
    CASE q.question_type = "TrueFalse" ->
            <<[id |-> index, text |-> q.questioninfo.question, status |-> "pending",
               question_type |-> q.question_type,
               answer |-> q.questioninfo.answer]>>
      [] q.question_type = "MCQ" ->
            <<[id |-> index, text |-> q.questioninfo.question, status |-> "pending",
               question_type |-> q.question_type,
               options |-> q.questioninfo.options,
               answer |-> q.questioninfo.answer]>>
      [] OTHER ->
            <<[id |-> index, text |-> q.questioninfo, status |-> "pending",
               question_type |-> "text"]>>

\* A variant of MapItem that copies the answer of a true/false item as its
\* options too.
MapItemOptionsOnTrueFalse(q, index) ==
    CASE q.question_type = "text" ->
            <<[id |-> index, text |-> q.questioninfo, status |-> "pending",
               question_type |-> q.question_type]>>
      [] q.question_type = "TrueFalse" ->
            <<[id |-> index, text |-> q.questioninfo.question, status |-> "pending",
               question_type |-> q.question_type,
               options |-> <<q.questioninfo.answer>>,
               answer |-> q.questioninfo.answer]>>
      [] q.question_type = "MCQ" ->
            <<[id |-> index, text |-> q.questioninfo.question, status |-> "pending",
               question_type |-> q.question_type,
               options |-> q.questioninfo.options,
               answer |-> q.questioninfo.answer]>>
      [] OTHER -> <<>>

\* The callback of data.map: the question for item q at array index `index`,
\* as a sequence of length one, or the empty sequence for null.
MapItem(q, index) ==
    CASE q.question_type = "text" ->
            <<[id |-> index, text |-> q.questioninfo, status |-> "pending",
               question_type |-> q.question_type]>>
      [] q.question_type = "TrueFalse" ->
            <<[id |-> index, text |-> q.questioninfo.question, status |-> "pending",
               question_type |-> q.question_type,
               answer |-> q.questioninfo.answer]>>
      [] q.question_type = "MCQ" ->
            <<[id |-> index, text |-> q.questioninfo.question, status |-> "pending",
               question_type |-> q.question_type,
               options |-> q.questioninfo.options,
               answer |-> q.questioninfo.answer]>>
      [] OTHER -> <<>>

\* data.map(...).filter(q => q !== null); array indices start at 0.
RECURSIVE MapFrom(_, _)
MapFrom(data, i) ==
    IF i > Len(data) THEN <<>>
    ELSE MapItem(data[i], i - 1) \o MapFrom(data, i + 1)

\* A variant of MapResponse that numbers the questions after the filter.
MapResponseRenumbered(data) ==
    LET questions == MapFrom(data, 1)
    IN  [k \in 1..Len(questions) |-> [questions[k] EXCEPT !.id = k - 1]]

MapResponse(data) == MapFrom(data, 1)

----------------------------------------------------------------------------
(* handleGenerate.                                                         *)

RemoveAt(s, i) == SubSeq(s, 1, i - 1) \o SubSeq(s, i + 1, Len(s))

\* What line 149 stores in generatedQuestions when a request starts.
QuestionsWhileLoading == <<>>

\* The synchronous part, up to the first await.
\* A variant of handleGenerate without its two checks.
handleGenerateUnchecked ==
    /\ Len(genReqs) < MaxReqs
    /\ isLoading' = TRUE
    /\ error' = NoError
    /\ generatedQuestions' = QuestionsWhileLoading
    /\ genReqs' = Append(genReqs, [pc |-> "fileToBase64",
                                    uploadedFile |-> uploadedFile])
    /\ UNCHANGED <<step, uploadedFile, numQuestions, bloomWeights,
                   uploaderFile, uploaderError>>

handleGenerate ==
    /\ Len(genReqs) < MaxReqs
    /\ IF uploadedFile = Null
       THEN /\ error' = <<"Please upload a file to generate questions from.">>
            /\ UNCHANGED <<isLoading, generatedQuestions, genReqs>>
       ELSE IF totalNumQuestions = 0
       THEN /\ error' = <<"Please select at least one question to generate.">>
            /\ UNCHANGED <<isLoading, generatedQuestions, genReqs>>
       ELSE /\ isLoading' = TRUE
            /\ error' = NoError
            /\ generatedQuestions' = QuestionsWhileLoading
            /\ genReqs' = Append(genReqs, [pc |-> "fileToBase64",
                                             uploadedFile |-> uploadedFile])
    /\ UNCHANGED <<step, uploadedFile, numQuestions, bloomWeights,
                   uploaderFile, uploaderError>>

ClickGenerate ==
    /\ GenVisible /\ GenOnly
    /\ UNCHANGED <<reviewFilter, isExportMenuOpen>>
    /\ download' = Null
    /\ GenerateShown /\ ~GenerateDisabled
    /\ handleGenerate

ClickRegenerate ==
    /\ GenVisible /\ GenOnly
    /\ UNCHANGED <<reviewFilter, isExportMenuOpen>>
    /\ download' = Null
    /\ RegenerateShown /\ ~RegenerateDisabled
    /\ handleGenerate

\* A suspended call moves on to its next await.
GenContinue(i, pc) ==
    /\ GenOnly
    /\ UNCHANGED <<reviewFilter, isExportMenuOpen>>
    /\ download' = Null
    /\ genReqs' = [genReqs EXCEPT ![i].pc = pc]
    /\ UNCHANGED <<step, uploadedFile, numQuestions, bloomWeights, isLoading, error,
                   generatedQuestions, uploaderFile, uploaderError>>

\* A variant of GenCatch without the finally block.
GenCatchKeepsLoading(i, errorMessage) ==
    /\ GenOnly
    /\ UNCHANGED <<reviewFilter, isExportMenuOpen>>
    /\ download' = Null
    /\ error' = <<"Failed to generate questions: ">> \o errorMessage
    /\ genReqs' = RemoveAt(genReqs, i)
    /\ UNCHANGED <<step, uploadedFile, numQuestions, bloomWeights, isLoading,
                   generatedQuestions, uploaderFile, uploaderError>>

\* catch (e) { setError(...) } finally { setIsLoading(false) }
GenCatch(i, errorMessage) ==
    /\ GenOnly
    /\ UNCHANGED <<reviewFilter, isExportMenuOpen>>
    /\ download' = Null
    /\ error' = <<"Failed to generate questions: ">> \o errorMessage
    /\ isLoading' = FALSE
    /\ genReqs' = RemoveAt(genReqs, i)
    /\ UNCHANGED <<step, uploadedFile, numQuestions, bloomWeights,
                   generatedQuestions, uploaderFile, uploaderError>>

\* e.message of a rejected fetch, text() or json().
ExceptionMessage == <<"TypeError">>
\* fileToBase64 rejects with the reader's ProgressEvent, which is no Error.
UnknownErrorMessage == <<"An unknown error occurred.">>

GenFileEncoded(i) ==
    /\ i \in 1..Len(genReqs) /\ genReqs[i].pc = "fileToBase64"
    /\ GenContinue(i, "fetch")

GenFileEncodeFailed(i) ==
    /\ i \in 1..Len(genReqs) /\ genReqs[i].pc = "fileToBase64"
    /\ GenCatch(i, UnknownErrorMessage)

GenFetchResolved(i, ok) ==
    /\ i \in 1..Len(genReqs) /\ genReqs[i].pc = "fetch"
    /\ GenContinue(i, IF ok THEN "json" ELSE "text")

GenFetchRejected(i) ==
    /\ i \in 1..Len(genReqs) /\ genReqs[i].pc = "fetch"
    /\ GenCatch(i, ExceptionMessage)

\* throw new Error(errorText || `Request failed: ${response.statusText}`)
GenErrorTextRead(i, errorText) ==
    /\ i \in 1..Len(genReqs) /\ genReqs[i].pc = "text"
    /\ GenCatch(i, IF errorText # <<>> THEN errorText
                   ELSE <<"Request failed: ", "Internal Server Error">>)

GenErrorTextRejected(i) ==
    /\ i \in 1..Len(genReqs) /\ genReqs[i].pc = "text"
    /\ GenCatch(i, ExceptionMessage)

GenJsonRejected(i) ==
    /\ i \in 1..Len(genReqs) /\ genReqs[i].pc = "json"
    /\ GenCatch(i, ExceptionMessage)

\* A variant of GenJsonParsed without setStep(4).
GenJsonParsedKeepsStep(i, data) ==
    /\ GenOnly
    /\ UNCHANGED <<reviewFilter, isExportMenuOpen>>
    /\ download' = Null
    /\ i \in 1..Len(genReqs) /\ genReqs[i].pc = "json"
    /\ generatedQuestions' = MapResponse(data)
    /\ isLoading' = FALSE
    /\ genReqs' = RemoveAt(genReqs, i)
    /\ UNCHANGED <<step, uploadedFile, numQuestions, bloomWeights, error,
                   uploaderFile, uploaderError>>

\* setGeneratedQuestions(questions); setStep(4); finally setIsLoading(false).
GenJsonParsed(i, data) ==
    /\ GenOnly
    /\ UNCHANGED <<reviewFilter, isExportMenuOpen>>
    /\ download' = Null
    /\ i \in 1..Len(genReqs) /\ genReqs[i].pc = "json"
    /\ generatedQuestions' = MapResponse(data)
    /\ step' = 4
    /\ isLoading' = FALSE
    /\ genReqs' = RemoveAt(genReqs, i)
    /\ UploaderRemount(4)
    /\ UNCHANGED <<uploadedFile, numQuestions, bloomWeights, error>>

----------------------------------------------------------------------------
(* Review (step 4).                                                        *)

\* A variant of SetStatus that marks every question.
SetStatusAll(questions, id, status) ==
    [k \in 1..Len(questions) |-> [questions[k] EXCEPT !.status = status]]

\* prev.map(q => q.id === id ? { ...q, status } : q)
SetStatus(questions, id, status) ==
    [k \in 1..Len(questions) |->
        IF questions[k].id = id THEN [questions[k] EXCEPT !.status = status]
        ELSE questions[k]]

\* The questions of the kind the review filter selects.
ReviewFilters == {"all", "text", "TrueFalse", "MCQ"}

FilterQuestions(questions, filter) ==
    IF filter = "all" THEN questions
    ELSE SelectSeq(questions, LAMBDA q : q.question_type = filter)

filteredQuestions == FilterQuestions(generatedQuestions, reviewFilter)

\* A variant of AcceptedOf that keeps the pending questions too.
AcceptedOfNotDiscarded(questions) ==
    SelectSeq(questions, LAMBDA q : q.status # "discarded")

\* generatedQuestions.filter(q => q.status === 'accepted')
AcceptedOf(questions) == SelectSeq(questions, LAMBDA q : q.status = "accepted")

acceptedQuestions == AcceptedOf(generatedQuestions)

\* The Accept and Discard buttons of a question listed under the filter.
updateQuestionStatus(id, status) ==
    /\ GenVisible
    /\ GenOnly
    /\ UNCHANGED <<reviewFilter, isExportMenuOpen>>
    /\ download' = Null
    /\ step = 4
    /\ \E k \in 1..Len(filteredQuestions) : filteredQuestions[k].id = id
    /\ generatedQuestions' = SetStatus(generatedQuestions, id, status)
    /\ UNCHANGED <<step, uploadedFile, numQuestions, bloomWeights, isLoading, error,
                   genReqs, uploaderFile, uploaderError>>

----------------------------------------------------------------------------
(* Export of the accepted questions.  A text is the sequence of its       *)
(* pieces, a file's content the sequence of its lines.                    *)

\* String.fromCharCode(97 + i)
Letter(i) == <<"a", "b", "c", "d">>[i + 1]

\* `${index + 1}` and `${q.answer}` of a boolean
NumStr(n) == <<"1", "2", "3", "4">>[n]
BoolStr(b) == IF b THEN "true" ELSE "false"

\* q.options.findIndex(opt => opt === answerOption), -1 when none matches
FindIndex(options, answerOption) ==
    IF \E i \in 1..Len(options) : options[i] = answerOption
    THEN (CHOOSE i \in 1..Len(options) :
            /\ options[i] = answerOption
            /\ \A j \in 1..(i - 1) : options[j] # answerOption) - 1
    ELSE -1

\* answerLabel of handleExportTXT
TxtAnswerLabel(q) ==
    LET answerIndex == FindIndex(q.options, q.answer)
    IN  IF answerIndex # -1 THEN <<Letter(answerIndex), ") ", q.answer>>
        ELSE <<q.answer>>

\* The lines of questionContent for the accepted question q at index
\* `index` (from 0).
TxtOptionLines(options) ==
    [i \in 1..Len(options) |-> <<"   ", Letter(i - 1), ") ", options[i]>>]

TxtQuestionContent(q, index) ==
    LET head == <<NumStr(index + 1), ". ", q.text>> IN
    IF q.question_type = "TrueFalse"
    THEN <<head \o <<" (True/False)">>, <<"   Answer: ", BoolStr(q.answer)>>>>
    ELSE IF q.question_type = "MCQ" /\ "options" \in DOMAIN q
    THEN <<head>> \o TxtOptionLines(q.options)
         \o (IF "answer" \in DOMAIN q
             THEN <<<<"   Answer: ">> \o TxtAnswerLabel(q)>>
             ELSE <<>>)
    ELSE <<head>>

\* acceptedQuestions.map(...).join('\n\n'), from index i - 1 on: an empty
\* line between two questions.
RECURSIVE TxtContentFrom(_, _)
TxtContentFrom(accepted, i) ==
    IF i > Len(accepted) THEN <<>>
    ELSE TxtQuestionContent(accepted[i], i - 1)
         \o (IF i < Len(accepted) THEN <<<<>>>> ELSE <<>>)
         \o TxtContentFrom(accepted, i + 1)

TxtContent(accepted) == TxtContentFrom(accepted, 1)

\* handleExportPDF.  new jsPDF() is an A4 page in millimetres.
margin == 15
pageHeight == 297

\* doc.splitTextToSize(text, width).length for the texts of the model
LineCount(text) ==
    CASE text = LongText(35) -> 35
      [] text = LongText(36) -> 36
      [] text = LongText(37) -> 37
      [] text = LongText(40) -> 40
      [] OTHER -> 1

\* A variant of checkPageBreak that keeps the space of a second margin
\* free at the bottom.
checkPageBreakTwoMargins(doc, neededHeight) ==
    IF doc.yPos + neededHeight > pageHeight - 2 * margin
    THEN [doc EXCEPT !.pages = @ + 1, !.yPos = margin]
    ELSE doc

\* A variant of checkPageBreak that lets a block run to the page's edge.
checkPageBreakFullPage(doc, neededHeight) ==
    IF doc.yPos + neededHeight > pageHeight
    THEN [doc EXCEPT !.pages = @ + 1, !.yPos = margin]
    ELSE doc

\* checkPageBreak: doc.addPage() and yPos = margin when the block does not
\* fit.  doc is the document so far: its number of pages, the cursor yPos
\* and the blocks written.
checkPageBreak(doc, neededHeight) ==
    IF doc.yPos + neededHeight > pageHeight - margin
    THEN [doc EXCEPT !.pages = @ + 1, !.yPos = margin]
    ELSE doc

\* checkPageBreak(neededHeight); doc.text(text, x, yPos); yPos += advance
\* The block records the cursor the check saw, the page and the cursor it
\* is written at, and the height the check was given.
WriteBlock(doc, kind, text, x, neededHeight, advance) ==
    LET checked == checkPageBreak(doc, neededHeight)
    IN  [checked EXCEPT
            !.blocks = Append(@, [kind |-> kind, text |-> text, x |-> x,
                                  page |-> checked.pages, y |-> checked.yPos,
                                  cursor |-> doc.yPos, onPage |-> doc.pages,
                                  extent |-> neededHeight]),
            !.yPos = @ + advance]

Advance(doc, dy) == [doc EXCEPT !.yPos = @ + dy]

\* The title: checkPageBreak(20), then yPos += 15.
PdfTitle(doc) ==
    WriteBlock(doc, "title", <<"BloomSphere Generated Questions">>, 105, 20, 15)

\* q.options.forEach(...), from option i on
RECURSIVE PdfOptionsFrom(_, _, _)
PdfOptionsFrom(doc, options, i) ==
    IF i > Len(options) THEN doc
    ELSE PdfOptionsFrom(
            WriteBlock(doc, "option", <<Letter(i - 1), ") ", options[i]>>, margin + 8,
                       LineCount(options[i]) * 7, LineCount(options[i]) * 7),
            options, i + 1)

\* A variant of PdfAnswerLabel that letters the last matching option.
PdfAnswerLabelLast(q) ==
    IF \E i \in 1..Len(q.options) : q.options[i] = q.answer
    THEN LET last == CHOOSE i \in 1..Len(q.options) :
                        /\ q.options[i] = q.answer
                        /\ \A j \in (i + 1)..Len(q.options) : q.options[j] # q.answer
         IN  <<Letter(last - 1), ") ", q.answer>>
    ELSE <<q.answer>>

\* answerString of handleExportPDF, empty when there is nothing to print
PdfAnswerLabel(q) ==
    LET answerIndex == FindIndex(q.options, q.answer)
    IN  IF answerIndex # -1 THEN <<Letter(answerIndex), ") ", q.answer>>
        ELSE <<q.answer>>

PdfAnswerString(q) ==
    IF q.question_type = "TrueFalse" THEN <<"Answer: ", BoolStr(q.answer)>>
    ELSE IF q.question_type = "MCQ" /\ "options" \in DOMAIN q
    THEN <<"Answer: ">> \o PdfAnswerLabel(q)
    ELSE <<>>

\* The body of acceptedQuestions.forEach for q at index `index` (from 0).
PdfQuestion(doc, q, index) ==
    LET numberedText ==
            <<NumStr(index + 1), ". ", q.text>>
            \o (IF q.question_type = "TrueFalse" THEN <<" (True/False)">> ELSE <<>>)
        afterText ==
            WriteBlock(doc, "question", numberedText, margin,
                       LineCount(q.text) * 7, LineCount(q.text) * 7)
        afterOptions ==
            IF q.question_type = "MCQ" /\ "options" \in DOMAIN q
            THEN PdfOptionsFrom(Advance(afterText, 2), q.options, 1)
            ELSE afterText
        afterAnswer ==
            IF "answer" \in DOMAIN q /\ PdfAnswerString(q) # <<>>
            THEN \* the answer strings of the model take one line
                 WriteBlock(Advance(afterOptions, 3), "answer", PdfAnswerString(q),
                            margin + 4, 1 * 6, 1 * 6)
            ELSE afterOptions
    IN  Advance(afterAnswer, 10)

RECURSIVE PdfFrom(_, _, _)
PdfFrom(doc, accepted, i) ==
    IF i > Len(accepted) THEN doc
    ELSE PdfFrom(PdfQuestion(doc, accepted[i], i - 1), accepted, i + 1)

\* The document handleExportPDF saves.
PdfContent(accepted) ==
    PdfFrom(PdfTitle([pages |-> 1, yPos |-> margin, blocks |-> <<>>]), accepted, 1)

\* The frame of the review controls, which set their own state only.
ReviewFrame ==
    UNCHANGED <<step, uploadedFile, numQuestions, bloomWeights, isLoading, error,
                generatedQuestions, genReqs, uploaderFile, uploaderError>>

\* A variant of setReviewFilter that stores the filtered list as the
\* question set.
setReviewFilterStoringFiltered(filter) ==
    /\ GenVisible
    /\ GenOnly
    /\ step = 4
    /\ reviewFilter' = filter
    /\ UNCHANGED isExportMenuOpen
    /\ download' = Null
    /\ generatedQuestions' = FilterQuestions(generatedQuestions, filter)
    /\ UNCHANGED <<step, uploadedFile, numQuestions, bloomWeights, isLoading, error,
                   genReqs, uploaderFile, uploaderError>>

\* The buttons All, Text, T/F and MCQ.
setReviewFilter(filter) ==
    /\ GenVisible
    /\ GenOnly
    /\ step = 4
    /\ reviewFilter' = filter
    /\ UNCHANGED isExportMenuOpen
    /\ download' = Null
    /\ ReviewFrame

\* Export Accepted: setIsExportMenuOpen(prev => !prev), disabled while no
\* question is accepted.
ExportMenuDisabled == Len(acceptedQuestions) = 0

toggleExportMenu ==
    /\ GenVisible
    /\ GenOnly
    /\ step = 4
    /\ ~ExportMenuDisabled
    /\ isExportMenuOpen' = ~isExportMenuOpen
    /\ UNCHANGED reviewFilter
    /\ download' = Null
    /\ ReviewFrame

\* A mousedown outside the export menu, anywhere in the document; the ref
\* is set only while the review step is rendered.
handleClickOutside ==
    /\ GenOnly
    /\ step = 4
    /\ isExportMenuOpen' = FALSE
    /\ UNCHANGED reviewFilter
    /\ download' = Null
    /\ ReviewFrame

\* Download as TXT: nothing without an accepted question, else the file is
\* saved and the menu closes.
handleExportTXT ==
    /\ GenVisible
    /\ GenOnly
    /\ step = 4
    /\ isExportMenuOpen
    /\ IF Len(acceptedQuestions) = 0
       THEN UNCHANGED isExportMenuOpen /\ download' = Null
       ELSE /\ download' = [name |-> "bloomsphere-questions.txt",
                            content |-> TxtContent(acceptedQuestions)]
            /\ isExportMenuOpen' = FALSE
    /\ UNCHANGED reviewFilter
    /\ ReviewFrame

\* Download as PDF, likewise.
handleExportPDF ==
    /\ GenVisible
    /\ GenOnly
    /\ step = 4
    /\ isExportMenuOpen
    /\ IF Len(acceptedQuestions) = 0
       THEN UNCHANGED isExportMenuOpen /\ download' = Null
       ELSE /\ download' = [name |-> "bloomsphere-questions.pdf",
                            content |-> PdfContent(acceptedQuestions)]
            /\ isExportMenuOpen' = FALSE
    /\ UNCHANGED reviewFilter
    /\ ReviewFrame

----------------------------------------------------------------------------
(* The generator workflow.                                                 *)

GenInit ==
    /\ step = 1
    /\ uploadedFile = Null
    /\ numQuestions = [text |-> 5, trueFalse |-> 0, mcq |-> 0]
    /\ bloomWeights = InitialWeights
    /\ isLoading = FALSE
    /\ error = NoError
    /\ generatedQuestions = <<>>
    /\ reviewFilter = "all"
    /\ isExportMenuOpen = FALSE
    /\ download = Null
    /\ genReqs = <<>>
    /\ uploaderFile = Null
    /\ uploaderError = NoError

----------------------------------------------------------------------------
(* PaperScorer.                                                            *)

\* acceptedMimeTypes passed to the uploader inside PaperScorer.
ScorerAcceptedMimeTypes == {"application/pdf", "image/png", "image/jpeg"}

CATEGORIES ==
    <<"Remembering", "Understanding", "Applying", "Analyzing", "Evaluating", "Creating">>

\* Items of a Score response (ApiQuestionScore), named by a key.
ScoreItemKeys == {"recall", "mixed"}

\* Further items: two categories tied for the maximum, no score at all,
\* the maximum in the last category.
TiedItemKeys == {"tied", "blank", "creative"}

ApiQuestionScore(key) ==
    CASE key = "recall" ->
            [question |-> "List the planets.", question_type |-> "text",
             remembering |-> 3, understanding |-> 1, applying |-> 0,
             analyzing |-> 0, evaluating |-> 0, creating |-> 0]
      [] key = "tied" ->
            [question |-> "Name and explain the law.", question_type |-> "text",
             remembering |-> 5, understanding |-> 5, applying |-> 0,
             analyzing |-> 0, evaluating |-> 0, creating |-> 0]
      [] key = "blank" ->
            [question |-> "Page 2", question_type |-> "text",
             remembering |-> 0, understanding |-> 0, applying |-> 0,
             analyzing |-> 0, evaluating |-> 0, creating |-> 0]
      [] key = "creative" ->
            [question |-> "Design an experiment.", question_type |-> "text",
             remembering |-> 0, understanding |-> 1, applying |-> 2,
             analyzing |-> 0, evaluating |-> 2, creating |-> 4]
      [] OTHER ->
            [question |-> "Compare two designs.", question_type |-> "text",
             remembering |-> 0, understanding |-> 1, applying |-> 0,
             analyzing |-> 2, evaluating |-> 2, creating |-> 1]

ScoreKeySeqs == UNION {[1..n -> ScoreItemKeys] : n \in 0..MaxResp}
ApiScoreData(keys) == [i \in 1..Len(keys) |-> ApiQuestionScore(keys[i])]

\* apiData.map(item => ({question, score: {...}}))
DetailedScoreItem(item) ==
    [question |-> item.question,
     score |-> [cat \in BloomCategories |->
        CASE cat = "Remembering" -> item.remembering
          [] cat = "Understanding" -> item.understanding
          [] cat = "Applying" -> item.applying
          [] cat = "Analyzing" -> item.analyzing
          [] cat = "Evaluating" -> item.evaluating
          [] cat = "Creating" -> item.creating]]

DetailedScores(apiData) == [i \in 1..Len(apiData) |-> DetailedScoreItem(apiData[i])]

\* detailedScores.reduce((total, item) => ..., {Remembering: 0, ...}),
\* folding from item i on.
RECURSIVE ReduceTotal(_, _, _)
ReduceTotal(total, detailedScores, i) ==
    IF i > Len(detailedScores) THEN total
    ELSE ReduceTotal([cat \in BloomCategories |-> total[cat] + detailedScores[i].score[cat]],
                     detailedScores, i + 1)

\* A variant of NewScoreData whose total is the score of the last item.
NewScoreDataLastOnly(apiData) ==
    [totalScore |-> IF apiData = <<>> THEN [cat \in BloomCategories |-> 0]
                    ELSE DetailedScoreItem(apiData[Len(apiData)]).score,
     detailedScores |-> DetailedScores(apiData),
     totalQuestions |-> Len(apiData)]

NewScoreData(apiData) ==
    [totalScore |-> ReduceTotal([cat \in BloomCategories |-> 0], DetailedScores(apiData), 1),
     detailedScores |-> DetailedScores(apiData),
     totalQuestions |-> Len(apiData)]

\* DetailedScore: Object.keys(item.score).reduce((a, b) =>
\* item.score[a] > item.score[b] ? a : b), the keys in the order the score
\* object was written in; DominantFrom folds from key i on.
RECURSIVE DominantFrom(_, _, _)
DominantFrom(score, a, i) ==
    IF i > Len(CATEGORIES) THEN a
    ELSE DominantFrom(score,
                      IF score[a] > score[CATEGORIES[i]] THEN a ELSE CATEGORIES[i],
                      i + 1)

dominantCategory(score) == DominantFrom(score, CATEGORIES[1], 2)

\* Object.values(scores).reduce((a, b) => a + b, 0)
SumOfScores(scores) ==
    scores["Remembering"] + scores["Understanding"] + scores["Applying"]
    + scores["Analyzing"] + scores["Evaluating"] + scores["Creating"]

\* The maxScore both callers of StackedBar pass: the sum || 1.
MaxScoreProp(scores) == IF SumOfScores(scores) = 0 THEN 1 ELSE SumOfScores(scores)

\* A variant of StackedBarMaxScore without the || 1 of its default.
StackedBarMaxScoreNoDefault(scores, maxScore) ==
    IF maxScore = 0 THEN SumOfScores(scores) ELSE maxScore

\* StackedBar: if (maxScore === 0) maxScore = totalScore || 1
StackedBarMaxScore(scores, maxScore) ==
    IF maxScore = 0
    THEN (IF SumOfScores(scores) = 0 THEN 1 ELSE SumOfScores(scores))
    ELSE maxScore

\* percentage = maxScore > 0 ? (value / maxScore) * 100 : 0, as the
\* fraction num / den; divides is whether the division was evaluated.
Percentage(scores, maxScore, category) ==
    LET basis == StackedBarMaxScore(scores, maxScore) IN
    IF basis > 0
    THEN [num |-> scores[category] * 100, den |-> basis, divides |-> TRUE]
    ELSE [num |-> 0, den |-> 1, divides |-> FALSE]

\* The segments StackedBar draws: none for a percentage below 0.1.
StackedBar(scores, maxScore) ==
    [category \in BloomCategories |->
        LET percentage == Percentage(scores, maxScore, category) IN
        IF percentage.num * 10 < percentage.den THEN Null ELSE percentage]

\* The bars of the results pane: the overall one and one per question.
OverallBar == StackedBar(scoreData.totalScore, MaxScoreProp(scoreData.totalScore))
DetailedBar(i) ==
    StackedBar(scoreData.detailedScores[i].score,
               MaxScoreProp(scoreData.detailedScores[i].score))

\* disabled= of the submit button.
SubmitDisabled == scorerIsLoading \/ (scorerUploadedFile = Null /\ questionText = "")

ScorerHandleFileChange(selectedFile) ==
    /\ ScorerVisible
    /\ ScorerOnly
    /\ scorerUploaderFile = Null
    /\ LET r == FileChangeResult(selectedFile, ScorerAcceptedMimeTypes, "PDF, PNG, or JPG")
       IN /\ scorerUploaderError' = r.error
          /\ scorerUploaderFile' = r.file
          /\ scorerUploadedFile' = r.file
    /\ UNCHANGED <<questionText, scorerIsLoading, scorerError, scoreData, scoreReqs>>

ScorerHandleRemoveFile ==
    /\ ScorerVisible
    /\ ScorerOnly
    /\ scorerUploaderFile # Null
    /\ scorerUploaderFile' = Null
    /\ scorerUploadedFile' = Null
    /\ scorerUploaderError' = NoError
    /\ UNCHANGED <<questionText, scorerIsLoading, scorerError, scoreData, scoreReqs>>

\* The textarea's onChange.
setQuestionText(value) ==
    /\ ScorerVisible
    /\ ScorerOnly
    /\ questionText' = value
    /\ UNCHANGED <<scorerUploadedFile, scorerIsLoading, scorerError, scoreData,
                   scoreReqs, scorerUploaderFile, scorerUploaderError>>

\* The Base64 text of a file's content: empty for an empty file.
Base64Of(file) == IF file.size = 0 THEN "" ELSE "JVBERi0="

\* payload.file: uploadedFile && fileContentBase64 ? {...} : null
PayloadFile(file, fileContentBase64) ==
    IF file # Null /\ fileContentBase64 # ""
    THEN [filename |-> file.name, content |-> fileContentBase64, mimeType |-> file.type]
    ELSE Null

\* payload.questions: questionText || null.  The text is wrapped, so that
\* null and a text compare.
PayloadQuestions(text) == IF text = "" THEN Null ELSE [text |-> text]

\* The payload built once the file is encoded (lines 107-114).
Payload(file, fileContentBase64, text) ==
    [file |-> PayloadFile(file, fileContentBase64),
     questions |-> PayloadQuestions(text)]

\* What line 99 stores in scoreData when a request starts.
ScoreDataWhileLoading == Null

\* handleSubmit, the synchronous part: up to await fileToBase64 with a
\* file, up to await fetch without one.
handleSubmit ==
    /\ Len(scoreReqs) < MaxReqs
    /\ IF scorerUploadedFile = Null /\ questionText = ""
       THEN /\ scorerError' = <<"Please upload a file or paste questions.">>
            /\ UNCHANGED <<scorerIsLoading, scoreData, scoreReqs>>
       ELSE /\ scorerIsLoading' = TRUE
            /\ scorerError' = NoError
            /\ scoreData' = ScoreDataWhileLoading
            /\ scoreReqs' = Append(scoreReqs,
                 [pc |-> IF scorerUploadedFile # Null THEN "fileToBase64" ELSE "fetch",
                  uploadedFile |-> scorerUploadedFile,
                  questionText |-> questionText,
                  payload |-> IF scorerUploadedFile # Null THEN Null
                              ELSE Payload(Null, "", questionText)])
    /\ UNCHANGED <<scorerUploadedFile, questionText, scorerUploaderFile,
                   scorerUploaderError>>

ClickSubmit ==
    /\ ScorerVisible /\ ScorerOnly
    /\ ~SubmitDisabled
    /\ handleSubmit

\* A variant of ScoreCatch for a loading flag that both components share.
ScoreCatchSharedLoading(i, errorMessage) ==
    /\ UNCHANGED <<step, uploadedFile, numQuestions, bloomWeights, error,
                   generatedQuestions, reviewFilter, isExportMenuOpen, download,
                   genReqs, uploaderFile, uploaderError, activeTab>>
    /\ isLoading' = FALSE
    /\ scorerError' = <<"Failed to score paper: ">> \o errorMessage
    /\ scorerIsLoading' = FALSE
    /\ scoreReqs' = RemoveAt(scoreReqs, i)
    /\ UNCHANGED <<scorerUploadedFile, questionText, scoreData, scorerUploaderFile,
                   scorerUploaderError>>

ScoreCatch(i, errorMessage) ==
    /\ ScorerOnly
    /\ scorerError' = <<"Failed to score paper: ">> \o errorMessage
    /\ scorerIsLoading' = FALSE
    /\ scoreReqs' = RemoveAt(scoreReqs, i)
    /\ UNCHANGED <<scorerUploadedFile, questionText, scoreData, scorerUploaderFile,
                   scorerUploaderError>>

ScoreFrame ==
    UNCHANGED <<scorerUploadedFile, questionText, scorerIsLoading, scorerError,
                scoreData, scorerUploaderFile, scorerUploaderError>>

\* fileToBase64 resolved: the payload is built and fetch is called.
ScoreFileEncoded(i) ==
    /\ ScorerOnly
    /\ i \in 1..Len(scoreReqs) /\ scoreReqs[i].pc = "fileToBase64"
    /\ LET r == scoreReqs[i] IN
       scoreReqs' = [scoreReqs EXCEPT ![i] =
         [r EXCEPT !.pc = "fetch",
                   !.payload = Payload(r.uploadedFile, Base64Of(r.uploadedFile),
                                       r.questionText)]]
    /\ ScoreFrame

ScoreFileEncodeFailed(i) ==
    /\ i \in 1..Len(scoreReqs) /\ scoreReqs[i].pc = "fileToBase64"
    /\ ScoreCatch(i, <<"An unknown error occurred during scoring.">>)

ScoreFetchResolved(i, ok) ==
    /\ ScorerOnly
    /\ i \in 1..Len(scoreReqs) /\ scoreReqs[i].pc = "fetch"
    /\ scoreReqs' = [scoreReqs EXCEPT ![i].pc = IF ok THEN "json" ELSE "text"]
    /\ ScoreFrame

ScoreFetchRejected(i) ==
    /\ i \in 1..Len(scoreReqs) /\ scoreReqs[i].pc = "fetch"
    /\ ScoreCatch(i, ExceptionMessage)

ScoreErrorTextRead(i, errorText) ==
    /\ i \in 1..Len(scoreReqs) /\ scoreReqs[i].pc = "text"
    /\ ScoreCatch(i, IF errorText # <<>> THEN errorText
                     ELSE <<"Request failed: ", "Internal Server Error">>)

ScoreErrorTextRejected(i) ==
    /\ i \in 1..Len(scoreReqs) /\ scoreReqs[i].pc = "text"
    /\ ScoreCatch(i, ExceptionMessage)

ScoreJsonRejected(i) ==
    /\ i \in 1..Len(scoreReqs) /\ scoreReqs[i].pc = "json"
    /\ ScoreCatch(i, ExceptionMessage)

\* setScoreData(newScoreData); finally setIsLoading(false).
ScoreJsonParsed(i, apiData) ==
    /\ ScorerOnly
    /\ i \in 1..Len(scoreReqs) /\ scoreReqs[i].pc = "json"
    /\ scoreData' = NewScoreData(apiData)
    /\ scorerIsLoading' = FALSE
    /\ scoreReqs' = RemoveAt(scoreReqs, i)
    /\ UNCHANGED <<scorerUploadedFile, questionText, scorerError, scorerUploaderFile,
                   scorerUploaderError>>

ScorerInit ==
    /\ scorerUploadedFile = Null
    /\ questionText = ""
    /\ scorerIsLoading = FALSE
    /\ scorerError = NoError
    /\ scoreData = Null
    /\ scoreReqs = <<>>
    /\ scorerUploaderFile = Null
    /\ scorerUploaderError = NoError

----------------------------------------------------------------------------
(* App.                                                                    *)

setActiveTab(tab) ==
    /\ activeTab' = tab
    /\ UNCHANGED <<genVars, scorerVars>>

Init == GenInit /\ ScorerInit /\ activeTab = "generator"

----------------------------------------------------------------------------
(* Next-state relations.  The user's inputs are drawn from the sets given. *)

GenResume(tagSeqs) ==
    \E i \in 1..MaxReqs :
        \/ GenFileEncoded(i)
        \/ GenFileEncodeFailed(i)
        \/ \E ok \in BOOLEAN : GenFetchResolved(i, ok)
        \/ GenFetchRejected(i)
        \/ \E errorText \in {<<>>, <<"quota exceeded">>} : GenErrorTextRead(i, errorText)
        \/ GenErrorTextRejected(i)
        \/ GenJsonRejected(i)
        \/ \E tags \in tagSeqs : GenJsonParsed(i, ApiData(tags))

ScorerResume(keySeqs) ==
    \E i \in 1..MaxReqs :
        \/ ScoreFileEncoded(i)
        \/ ScoreFileEncodeFailed(i)
        \/ \E ok \in BOOLEAN : ScoreFetchResolved(i, ok)
        \/ ScoreFetchRejected(i)
        \/ \E errorText \in {<<>>, <<"quota exceeded">>} : ScoreErrorTextRead(i, errorText)
        \/ ScoreErrorTextRejected(i)
        \/ ScoreJsonRejected(i)
        \/ \E keys \in keySeqs : ScoreJsonParsed(i, ApiScoreData(keys))

GenNavigate == Back \/ NextStep \/ StartOver

GenReview ==
    \E id \in 0..(MaxResp - 1), status \in {"accepted", "discarded"} :
        updateQuestionStatus(id, status)

\* The generator workflow alone, the generator tab being the initial one.
Next ==
    \/ \E f \in Files \cup {Null} : GenHandleFileChange(f)
    \/ GenHandleRemoveFile
    \/ \E type \in QuestionCountKeys, value \in 0..MaxCount :
          handleNumQuestionChange(type, value)
    \/ GenNavigate
    \/ ClickGenerate
    \/ ClickRegenerate
    \/ GenResume(TagSeqs)
    \/ GenReview

Spec == Init /\ [][Next]_vars

\* Both workflows and the tabs: one valid file each, and the responses of
\* at most one item.
ShortTagSeqs == {tags \in TagSeqs : Len(tags) <= 1}
ShortKeySeqs == {keys \in ScoreKeySeqs : Len(keys) <= 1}

NextApp ==
    \/ GenHandleFileChange(PdfFile)
    \/ \E type \in QuestionCountKeys, value \in 0..MaxCount :
          handleNumQuestionChange(type, value)
    \/ GenNavigate
    \/ ClickGenerate
    \/ ClickRegenerate
    \/ GenResume(ShortTagSeqs)
    \/ ScorerHandleFileChange(PngFile)
    \/ ScorerHandleRemoveFile
    \/ \E value \in {"", "What is DNA?"} : setQuestionText(value)
    \/ ClickSubmit
    \/ ScorerResume(ShortKeySeqs)
    \/ \E tab \in {"generator", "scorer"} : setActiveTab(tab)

SpecApp == Init /\ [][NextApp]_vars

\* The generator workflow with its weight sliders moved to either end of
\* their range (min=0, max=100), one valid file and one response.
WeightSliderEnds == {0, 100}

NextWeights ==
    \/ GenHandleFileChange(PdfFile)
    \/ GenNavigate
    \/ \E category \in BloomCategories, value \in WeightSliderEnds :
          handleWeightChange(category, value)
    \/ \E preset \in Presets : applyWeightPreset(preset)
    \/ ClickGenerate
    \/ ClickRegenerate
    \/ GenResume({<<"text">>})

SpecWeights == Init /\ [][NextWeights]_vars

\* The generator workflow with the controls of its review step: one valid
\* file, the initial counts, every response.
GenReviewControls ==
    \/ \E filter \in ReviewFilters : setReviewFilter(filter)
    \/ toggleExportMenu
    \/ handleClickOutside
    \/ handleExportTXT
    \/ handleExportPDF

NextReview ==
    \/ GenHandleFileChange(PdfFile)
    \/ GenNavigate
    \/ ClickGenerate
    \/ ClickRegenerate
    \/ GenResume(TagSeqs)
    \/ GenReview
    \/ GenReviewControls

SpecReview == Init /\ [][NextReview]_vars

\* The way to the review step and the export of what is accepted there,
\* for responses that arrive: short questions of every kind, multiple-choice
\* ones whose answer is the second option, no option, or an option that
\* occurs twice.
ExportResume(itemTags) ==
    \E i \in 1..MaxReqs :
        \/ GenFileEncoded(i)
        \/ GenFetchResolved(i, TRUE)
        \/ \E tags \in UNION {[1..n -> itemTags] : n \in 0..MaxResp} :
              GenJsonParsed(i, ApiData(tags))

TextExportTags == {"text", "Essay", "TrueFalse", "McqLyon", "McqNoMatch", "McqLong"}

NextExportText ==
    \/ GenHandleFileChange(PdfFile)
    \/ NextStep
    \/ ClickGenerate
    \/ ClickRegenerate
    \/ ExportResume(TextExportTags)
    \/ GenReview
    \/ \E filter \in {"all", "MCQ"} : setReviewFilter(filter)
    \/ toggleExportMenu
    \/ handleExportTXT
    \/ handleExportPDF

SpecExportText == Init /\ [][NextExportText]_vars

\* The same for questions long enough to fill a page: texts of 35, 36, 37
\* and 40 lines, where a page holds 38 lines below its title and 36 under
\* the title.
PdfExportTags == {"text", "Text36", "Text37", "Text40", "LongTrueFalse", "McqLong"}

NextExportPdf ==
    \/ GenHandleFileChange(PdfFile)
    \/ NextStep
    \/ ClickGenerate
    \/ ClickRegenerate
    \/ ExportResume(PdfExportTags)
    \/ GenReview
    \/ toggleExportMenu
    \/ handleExportPDF

SpecExportPdf == Init /\ [][NextExportPdf]_vars

\* The scorer workflow alone, reached through its tab: every response of
\* up to MaxResp items.
AllScoreItemKeys == ScoreItemKeys \cup TiedItemKeys
AllScoreKeySeqs == UNION {[1..n -> AllScoreItemKeys] : n \in 0..MaxResp}

NextScorer ==
    \/ \E tab \in {"generator", "scorer"} : setActiveTab(tab)
    \/ \E f \in {PdfFile, PngFile, TxtFile, Null} : ScorerHandleFileChange(f)
    \/ ScorerHandleRemoveFile
    \/ \E value \in {"", "What is DNA?"} : setQuestionText(value)
    \/ ClickSubmit
    \/ ScorerResume(AllScoreKeySeqs)

SpecScorer == Init /\ [][NextScorer]_vars

\* Both workflows and the tabs as in NextApp, the text count being 0 or 1;
\* fetch, the readers of its response and the file reader settle every
\* promise they return, so a suspended handler is always resumed.
NextLive ==
    \/ GenHandleFileChange(PdfFile)
    \/ \E value \in {0, 1} : handleNumQuestionChange("text", value)
    \/ GenNavigate
    \/ ClickGenerate
    \/ ClickRegenerate
    \/ GenResume(ShortTagSeqs)
    \/ ScorerHandleFileChange(PngFile)
    \/ ScorerHandleRemoveFile
    \/ \E value \in {"", "What is DNA?"} : setQuestionText(value)
    \/ ClickSubmit
    \/ ScorerResume(ShortKeySeqs)
    \/ \E tab \in {"generator", "scorer"} : setActiveTab(tab)

SpecLive ==
    /\ Init /\ [][NextLive]_vars
    /\ WF_vars(GenResume(ShortTagSeqs))
    /\ WF_vars(ScorerResume(ShortKeySeqs))

\* Both workflows with every file of the model: the uploaders, the steps
\* before generation, and the scorer with its requests.
NextFiles ==
    \/ \E tab \in {"generator", "scorer"} : setActiveTab(tab)
    \/ \E f \in AllFiles \cup {Null} : GenHandleFileChange(f)
    \/ GenHandleRemoveFile
    \/ handleNumQuestionChange("text", 0)
    \/ Back
    \/ NextStep
    \/ \E f \in AllFiles \cup {Null} : ScorerHandleFileChange(f)
    \/ ScorerHandleRemoveFile
    \/ \E value \in {"", "What is DNA?"} : setQuestionText(value)
    \/ ClickSubmit
    \/ ScorerResume(ShortKeySeqs)

SpecFiles == Init /\ [][NextFiles]_vars

----------------------------------------------------------------------------
(* Steps of a Generate request, as seen on a pair of states.               *)

\* handleGenerate got past its two checks and suspended at its first await.
GenIssued == Len(genReqs') = Len(genReqs) + 1

\* A suspended handleGenerate returned, whichever way.
GenReturned == Len(genReqs') = Len(genReqs) - 1

\* A suspended handleGenerate ran its try block to the end.
GenSucceeded ==
    /\ GenReturned
    /\ \E i \in 1..MaxReqs, tags \in TagSeqs : GenJsonParsed(i, ApiData(tags))

\* A suspended handleGenerate ran its catch block.
GenFailed ==
    \E i \in 1..MaxReqs :
        \/ GenFileEncodeFailed(i)
        \/ GenFetchRejected(i)
        \/ \E errorText \in {<<>>, <<"quota exceeded">>} : GenErrorTextRead(i, errorText)
        \/ GenErrorTextRejected(i)
        \/ GenJsonRejected(i)

\* The controls that start a request.
GenerateEnabled == GenerateShown /\ ~GenerateDisabled
RegenerateEnabled == RegenerateShown /\ ~RegenerateDisabled

----------------------------------------------------------------------------
(* Properties.                                                             *)

\* C1: a Generate response that resolves after Start Over is ignored: from
\* the state Start Over leaves (step 1, no file, no questions) with a
\* request still in flight, the step in which that request resolves keeps
\* step 1, no file and no questions.  (A request is in flight at step 1 only
\* after Start Over: requests start at step 3 or 4 and Back is disabled
\* while loading.)
C1_StaleResponseIgnored ==
    [][(/\ step = 1 /\ uploadedFile = Null /\ generatedQuestions = <<>>
        /\ genReqs # <<>>
        /\ Len(genReqs') < Len(genReqs))
       => (step' = 1 /\ uploadedFile' = Null /\ generatedQuestions' = <<>>)]_vars

\* C2: at most one Generate request and at most one Score request is in
\* flight, and while one is in flight every control that starts a request
\* of its kind is disabled.
C2_OneRequestInFlight ==
    /\ Len(genReqs) <= 1
    /\ Len(scoreReqs) <= 1
    /\ genReqs # <<>> => ~GenerateEnabled /\ ~RegenerateEnabled
    /\ scoreReqs # <<>> => SubmitDisabled

\* C2's case: both kinds of request in flight, the Generate one having
\* outlived a Start Over (the workflow is back at step 2).
C2_Witness == genReqs # <<>> /\ scoreReqs # <<>> /\ step = 2

\* C3: with a file, a positive question count and no request in flight, a
\* Generate request can be started from step 3 or step 4 exactly when the
\* six weights do not sum to 0.
C3_BlockedIffZeroWeight ==
    (/\ step \in {3, 4}
     /\ uploadedFile # Null
     /\ totalNumQuestions > 0
     /\ genReqs = <<>>)
    => ((GenerateEnabled \/ RegenerateEnabled) <=> totalWeight # 0)

\* C4: a Generate request that fails leaves the question set it was started
\* over as it was: neither the step that starts a request over a non-empty
\* question set nor the step in which it fails changes the set or a status.
C4_FailureKeepsQuestions ==
    [][(generatedQuestions # <<>> /\ (GenIssued \/ GenFailed))
       => generatedQuestions' = generatedQuestions]_vars

\* C5: while a Generate request is in flight the question set shown is the
\* one from before the request: a step that leaves a request in flight
\* without leaving the review step keeps the questions (their statuses
\* aside), so the set changes only in the step that resolves the request.
SameQuestions(a, b) ==
    /\ Len(a) = Len(b)
    /\ \A k \in 1..Len(a) : [a[k] EXCEPT !.status = "pending"]
                            = [b[k] EXCEPT !.status = "pending"]

C5_SupersededOnlyOnResolve ==
    [][(genReqs' # <<>> /\ step = 4 /\ step' = 4)
       => SameQuestions(generatedQuestions', generatedQuestions)]_vars

\* C6: the step of a successful Generate response stores the mapped
\* response as the question set, every question pending, at step 4 and not
\* loading.
C6_SuccessReplacesQuestions ==
    [][GenSucceeded
       => (/\ \E tags \in TagSeqs : generatedQuestions' = MapResponse(ApiData(tags))
           /\ \A k \in 1..Len(generatedQuestions') :
                 generatedQuestions'[k].status = "pending"
           /\ step' = 4
           /\ isLoading' = FALSE)]_vars

\* C6's case: a response has replaced the set after a regenerate was started
\* at step 4 (the earlier set's statuses are gone).
C6_Witness ==
    /\ step = 4 /\ ~isLoading /\ Len(generatedQuestions) = MaxResp
    /\ \A k \in 1..Len(generatedQuestions) : generatedQuestions[k].status = "pending"

\* C7 as claimed: after a successful Generate response the ids are 0..n-1.
C7_IdsAreZeroToN ==
    [][GenSucceeded
       => \A k \in 1..Len(generatedQuestions') : generatedQuestions'[k].id = k - 1]_vars

\* C7 as amended: after a successful Generate response the ids are the
\* array indices of the recognized items: strictly increasing and below the
\* response's length, and exactly 0..n-1 when every item is recognized.
C7_IdsAreSourceIndices ==
    [][GenReturned =>
        \A i \in 1..MaxReqs, tags \in TagSeqs :
          GenJsonParsed(i, ApiData(tags))
          => LET qs == generatedQuestions' IN
             /\ \A k \in 1..Len(qs) :
                   /\ qs[k].id \in 0..(Len(tags) - 1)
                   /\ tags[qs[k].id + 1] \in RecognizedTags
             /\ \A k \in 1..(Len(qs) - 1) : qs[k].id < qs[k + 1].id
             /\ (\A j \in 1..Len(tags) : tags[j] \in RecognizedTags)
                   => \A k \in 1..Len(qs) : qs[k].id = k - 1]_vars

\* C7's case: a response whose first item was not recognized has been
\* mapped.
C7_Witness ==
    step = 4 /\ Len(generatedQuestions) = 1 /\ generatedQuestions[1].id = 1

\* C8: the step in which a Generate request fails sets a non-empty error
\* message, ends loading and keeps the step.
C8_FailureKeepsStep ==
    [][GenFailed
       => (/\ error' # NoError /\ error'[1] # ""
           /\ isLoading' = FALSE
           /\ step' = step)]_vars

\* C8's case: a regenerate has failed at step 4.
C8_Witness == step = 4 /\ ~isLoading /\ error # NoError /\ genReqs = <<>>

\* C9: Start Over leads to step 1 with no file, no questions, not loading
\* and no error message.
C9_ResetClearsAll ==
    [][StartOver
       => (/\ step' = 1 /\ uploadedFile' = Null /\ generatedQuestions' = <<>>
           /\ isLoading' = FALSE /\ error' = NoError)]_vars

\* C10: no step leads from step 1 to step 2 without a file or from step 2
\* to step 3 with no question requested; a step from step 1 or 2 to the next
\* changes nothing else of the workflow; and Next is enabled whenever its
\* guard holds.
AdvanceGuard ==
    /\ step = 1 => uploadedFile # Null
    /\ step = 2 => totalNumQuestions > 0

C10_AdvanceGuarded ==
    /\ [][(step \in {1, 2} /\ step' = step + 1)
          => (/\ AdvanceGuard
              /\ UNCHANGED <<uploadedFile, numQuestions, bloomWeights, isLoading, error,
                             generatedQuestions, genReqs>>)]_vars
    /\ []((step \in {1, 2} /\ AdvanceGuard) => ENABLED NextStep)

\* C10's case: the workflow has advanced to step 2 and stands there with no
\* question requested.
C10_Witness == step = 2 /\ uploadedFile # Null /\ totalNumQuestions = 0

\* C11: Back from step s sets the step to max(1, s - 1) and leaves the file,
\* the requested counts, the weights, the question set with its statuses
\* and the review filter as they are.  Back is the only step that lowers
\* the step by one.
C11_BackKeepsData ==
    [][(Back \/ step' = step - 1)
       => (/\ step' = Max(1, step - 1)
           /\ UNCHANGED <<uploadedFile, numQuestions, bloomWeights,
                          generatedQuestions, reviewFilter>>)]_vars

\* C11's case: back at step 3 from the review step, an accepted question
\* and the chosen filter still there.
C11_Witness ==
    /\ step = 3
    /\ reviewFilter = "MCQ"
    /\ Len(generatedQuestions) = MaxResp
    /\ \E k \in 1..Len(generatedQuestions) : generatedQuestions[k].status = "accepted"

\* C12: Back is always legal: past step 1 it is enabled in every reachable
\* state, a Generate request loading or not.
C12_BackAlwaysEnabled == step > 1 => ENABLED Back

\* C13: setStatus(id, status) changes only the status of the question whose
\* id matches: for every id and status, known or not, the result has the
\* same questions in the same order, each equal to the one before except
\* that the matching one has the given status; with no matching id the set
\* is unchanged.  The Accept and Discard buttons store exactly that result.
QuestionStatuses == {"pending", "accepted", "discarded"}

StatusOnlyChange(before, after, id, status) ==
    /\ Len(after) = Len(before)
    /\ \A k \in 1..Len(before) :
          /\ DOMAIN after[k] = DOMAIN before[k]
          /\ \A field \in DOMAIN before[k] \ {"status"} :
                after[k][field] = before[k][field]
          /\ after[k].status = IF before[k].id = id THEN status ELSE before[k].status
    /\ (\A k \in 1..Len(before) : before[k].id # id) => after = before

C13_SetStatusOnlyMatching ==
    /\ [](\A id \in 0..MaxResp, status \in QuestionStatuses :
            StatusOnlyChange(generatedQuestions,
                             SetStatus(generatedQuestions, id, status), id, status))
    /\ [][\A id \in 0..MaxResp, status \in QuestionStatuses :
            updateQuestionStatus(id, status)
            => StatusOnlyChange(generatedQuestions, generatedQuestions', id, status)]_vars

\* C13's case: of two questions one was accepted and the other was not
\* touched; the id MaxResp is in no question set.
C13_Witness ==
    /\ Len(generatedQuestions) = 2
    /\ generatedQuestions[1].status = "pending"
    /\ generatedQuestions[2].status = "accepted"
    /\ \A k \in 1..Len(generatedQuestions) : generatedQuestions[k].id # MaxResp

\* C14: Generate invoked without a file or with a total count of 0 issues
\* no request: loading stays false, an error message is set, and the step
\* and the question set are unchanged; and no request in flight was started
\* without a file.
GenInvoked == ClickGenerate \/ ClickRegenerate

C14_NoRequestWithoutFile ==
    /\ [][(GenInvoked /\ (uploadedFile = Null \/ totalNumQuestions = 0))
          => (/\ genReqs' = genReqs
              /\ isLoading' = FALSE
              /\ error' # NoError /\ error'[1] # ""
              /\ step' = step
              /\ generatedQuestions' = generatedQuestions)]_vars
    /\ [](\A i \in 1..Len(genReqs) : genReqs[i].uploadedFile # Null)

\* C14's case: Regenerate was clicked at step 4 with no file (a response
\* that arrived after Start Over had led there).
C14_Witness ==
    /\ step = 4 /\ uploadedFile = Null /\ genReqs = <<>> /\ ~isLoading
    /\ error = <<"Please upload a file to generate questions from.">>

\* C15: the mapper drops the items of unrecognized type and keeps the rest:
\* the question set of a successful response has one question per
\* recognized item, of that item's kind and in the response's order, and
\* the response still counts as a success (step 4, no error).
RecognizedOf(tags) == SelectSeq(tags, LAMBDA tag : tag \in RecognizedTags)

KindsOf(questions) == [k \in 1..Len(questions) |-> questions[k].question_type]

C15_UnrecognizedDropped ==
    [][GenReturned =>
        \A i \in 1..MaxReqs, tags \in TagSeqs :
          GenJsonParsed(i, ApiData(tags))
          => (/\ KindsOf(generatedQuestions') = RecognizedOf(tags)
              /\ step' = 4
              /\ error' = NoError)]_vars

\* C15's case: a response of an unrecognized item followed by a
\* multiple-choice one has been stored.
C15_Witness ==
    /\ step = 4 /\ error = NoError /\ ~isLoading
    /\ KindsOf(generatedQuestions) = <<"MCQ">>
    /\ generatedQuestions[1].id = 1

\* C16: every question the mapper emits carries the array index of its
\* source item as id (it is the question MapItem gives for the item at that
\* index), so in every question set the ids are strictly increasing in set
\* order, hence unique.
C16_IdIsSourceIndex ==
    /\ [][GenReturned =>
           \A i \in 1..MaxReqs, tags \in TagSeqs :
             GenJsonParsed(i, ApiData(tags))
             => \A k \in 1..Len(generatedQuestions') :
                   LET q == generatedQuestions'[k] IN
                   /\ q.id + 1 \in 1..Len(tags)
                   /\ <<q>> = MapItem(ApiData(tags)[q.id + 1], q.id)]_vars
    /\ [](\A k, l \in 1..Len(generatedQuestions) :
             k < l => generatedQuestions[k].id < generatedQuestions[l].id)

\* C16's case: the one question of the set, made from the second item of
\* its response, has been accepted.
C16_Witness ==
    /\ Len(generatedQuestions) = 1
    /\ generatedQuestions[1].id = 1
    /\ generatedQuestions[1].status = "accepted"

\* C17: in every reachable state every question of the set has options
\* exactly when it is multiple-choice and lacks an answer exactly when it is
\* plain, whatever status, filter, navigation and export actions were taken.
C17_OptionsIffMultipleChoice ==
    \A k \in 1..Len(generatedQuestions) :
        LET q == generatedQuestions[k] IN
        /\ ("options" \in DOMAIN q) <=> (q.question_type = "MCQ")
        /\ ("answer" \notin DOMAIN q) <=> (q.question_type = "text")

\* C17's case: a true/false and a multiple-choice question, the second
\* accepted, after a change of filter and Back.
C17_Witness ==
    /\ step = 3
    /\ reviewFilter = "TrueFalse"
    /\ KindsOf(generatedQuestions) = <<"TrueFalse", "MCQ">>
    /\ generatedQuestions[2].status = "accepted"

\* C18: for every Score response the stored ScoreData has, for each of the
\* six categories, the sum of the items' scores for that category as total,
\* the same for every order of the items; the number of items as
\* totalQuestions; and the items' questions and scores, in response order,
\* as detailedScores.
ApiScoreOf(item, cat) ==
    CASE cat = "Remembering" -> item.remembering
      [] cat = "Understanding" -> item.understanding
      [] cat = "Applying" -> item.applying
      [] cat = "Analyzing" -> item.analyzing
      [] cat = "Evaluating" -> item.evaluating
      [] cat = "Creating" -> item.creating

\* A suspended handleSubmit returned, whichever way.
ScoreReturned == Len(scoreReqs') = Len(scoreReqs) - 1

RECURSIVE SumOfCategory(_, _, _)
SumOfCategory(apiData, cat, n) ==
    IF n = 0 THEN 0
    ELSE ApiScoreOf(apiData[n], cat) + SumOfCategory(apiData, cat, n - 1)

Orders(n) == {p \in [1..n -> 1..n] : \A a, b \in 1..n : a # b => p[a] # p[b]}

C18_TotalsAreSums ==
    [][ScoreReturned =>
        \A i \in 1..MaxReqs, keys \in AllScoreKeySeqs :
             ScoreJsonParsed(i, ApiScoreData(keys))
             => LET apiData == ApiScoreData(keys)
                    n == Len(apiData)
                IN  /\ \A cat \in BloomCategories :
                          scoreData'.totalScore[cat] = SumOfCategory(apiData, cat, n)
                    /\ \A p \in Orders(n) :
                          NewScoreData([k \in 1..n |-> apiData[p[k]]]).totalScore
                             = scoreData'.totalScore
                    /\ scoreData'.totalQuestions = n
                    /\ Len(scoreData'.detailedScores) = n
                    /\ \A k \in 1..n :
                          /\ scoreData'.detailedScores[k].question = apiData[k].question
                          /\ \A cat \in BloomCategories :
                                scoreData'.detailedScores[k].score[cat]
                                   = ApiScoreOf(apiData[k], cat)]_vars

\* C18's case: a response of two different items, both scoring in
\* Understanding, has been aggregated.
C18_Witness ==
    /\ scoreData # Null
    /\ scoreData.totalQuestions = 2
    /\ scoreData.detailedScores[1].score # scoreData.detailedScores[2].score
    /\ scoreData.totalScore["Understanding"] = 2

\* C19: for every item of the ScoreData shown, dominantCategory is a
\* category of maximal score and, of the categories with that score, the
\* earliest in the order Remembering, ..., Creating.
CategoryIndex(cat) == CHOOSE i \in 1..Len(CATEGORIES) : CATEGORIES[i] = cat

C19_DominantIsEarliestMaximum ==
    scoreData # Null =>
        \A k \in 1..Len(scoreData.detailedScores) :
            LET score == scoreData.detailedScores[k].score
                dominant == dominantCategory(score)
            IN  /\ \A cat \in BloomCategories : score[cat] <= score[dominant]
                /\ \A cat \in BloomCategories :
                      score[cat] = score[dominant]
                      => CategoryIndex(dominant) <= CategoryIndex(cat)

\* C20: ScoreData is changed only by a successful Score response: a
\* ScoreData that is present stays as it is in the step that submits a new
\* request and in the step in which a request fails.
ScoreIssued == Len(scoreReqs') = Len(scoreReqs) + 1

ScoreFailed ==
    \E i \in 1..MaxReqs :
        \/ ScoreFileEncodeFailed(i)
        \/ ScoreFetchRejected(i)
        \/ \E errorText \in {<<>>, <<"quota exceeded">>} : ScoreErrorTextRead(i, errorText)
        \/ ScoreErrorTextRejected(i)
        \/ ScoreJsonRejected(i)

C20_ScoreDataKeptUntilSuccess ==
    [][(scoreData # Null /\ (ScoreIssued \/ ScoreFailed))
       => scoreData' = scoreData]_vars

\* C21: what is exported is exactly the accepted questions, in the order of
\* the question set (the order of their ids): the export has one numbered
\* question per accepted question and none for a pending or discarded one,
\* and the k-th accepted question is numbered k, whatever its id and
\* whatever the review filter shows.
TxtSaved == download # Null /\ download.name = "bloomsphere-questions.txt"
PdfSaved == download # Null /\ download.name = "bloomsphere-questions.pdf"

\* The numbered question texts of the saved file, in its order.
NumberedTexts ==
    IF TxtSaved
    THEN SelectSeq(download.content, LAMBDA line : Len(line) >= 3 /\ line[2] = ". ")
    ELSE LET blocks == SelectSeq(download.content.blocks,
                                 LAMBDA block : block.kind = "question")
         IN  [k \in 1..Len(blocks) |-> blocks[k].text]

AcceptedPositions(j) ==
    {i \in 1..j : generatedQuestions[i].status = "accepted"}

C21_ExportsAcceptedInOrder ==
    download # Null =>
        /\ Len(NumberedTexts) = Cardinality(AcceptedPositions(Len(generatedQuestions)))
        /\ \A j \in AcceptedPositions(Len(generatedQuestions)) :
              LET k == Cardinality(AcceptedPositions(j)) IN
              /\ NumberedTexts[k][1] = NumStr(k)
              /\ NumberedTexts[k][3] = generatedQuestions[j].text
        /\ \A i, j \in AcceptedPositions(Len(generatedQuestions)) :
              i < j => generatedQuestions[i].id < generatedQuestions[j].id

\* C21's case: the text export of a set whose first question is discarded
\* and whose second, a true/false one that the filter hides, is accepted:
\* it is numbered 1.
C21_Witness ==
    /\ TxtSaved
    /\ reviewFilter = "MCQ"
    /\ Len(generatedQuestions) = 2
    /\ generatedQuestions[1].status = "discarded"
    /\ generatedQuestions[2].status = "accepted"
    /\ generatedQuestions[2].question_type = "TrueFalse"
    /\ download.content[1] = <<"1", ". ", generatedQuestions[2].text, " (True/False)">>

\* C22: for every accepted multiple-choice question the text export and
\* the PDF export print the same answer label: the letter and the text of
\* the first option equal to the answer, or the answer as it is when no
\* option equals it; and the answers of a saved export are those the other
\* renderer prints for the same accepted questions.
TxtAnswers(content) ==
    LET lines == SelectSeq(content, LAMBDA line : Len(line) >= 2 /\ line[1] = "   Answer: ")
    IN  [k \in 1..Len(lines) |-> Tail(lines[k])]

PdfAnswers(content) ==
    LET blocks == SelectSeq(content.blocks, LAMBDA block : block.kind = "answer")
    IN  [k \in 1..Len(blocks) |-> Tail(blocks[k].text)]

IsFirstMatchLabel(label, q) ==
    IF \E i \in 1..Len(q.options) : q.options[i] = q.answer
    THEN \E i \in 1..Len(q.options) :
            /\ q.options[i] = q.answer
            /\ \A j \in 1..(i - 1) : q.options[j] # q.answer
            /\ label = <<Letter(i - 1), ") ", q.options[i]>>
    ELSE label = <<q.answer>>

C22_SameAnswerLabel ==
    /\ \A k \in 1..Len(acceptedQuestions) :
          LET q == acceptedQuestions[k] IN
          (q.question_type = "MCQ" /\ "options" \in DOMAIN q /\ "answer" \in DOMAIN q) =>
              /\ TxtAnswerLabel(q) = PdfAnswerLabel(q)
              /\ IsFirstMatchLabel(TxtAnswerLabel(q), q)
              /\ IsFirstMatchLabel(PdfAnswerLabel(q), q)
    /\ TxtSaved => TxtAnswers(download.content) = PdfAnswers(PdfContent(acceptedQuestions))
    /\ PdfSaved => PdfAnswers(download.content) = TxtAnswers(TxtContent(acceptedQuestions))

\* C22's case: a saved text export of two accepted multiple-choice
\* questions, one answered by its second option and one by no option.
C22_Witness ==
    /\ TxtSaved
    /\ Len(acceptedQuestions) = 2
    /\ \A k \in 1..2 : acceptedQuestions[k].question_type = "MCQ"
    /\ acceptedQuestions[1].options = <<"Paris", "Lyon", "Nice">>
    /\ acceptedQuestions[1].answer = "Lyon"
    /\ acceptedQuestions[2].answer = "Marseille"
    /\ TxtAnswers(download.content) = <<<<"b", ") ", "Lyon">>, <<"Marseille">>>>
    /\ PdfAnswers(PdfContent(acceptedQuestions)) = <<<<"b", ") ", "Lyon">>, <<"Marseille">>>>

\* C23 as stated: whenever a block about to be written needs more space
\* than pageHeight - 2 * margin - yPos, a new page is started before it and
\* the block is written with the cursor at margin.
SavedBlocks == IF PdfSaved THEN download.content.blocks ELSE <<>>

OnNewPage(block) == block.page = block.onPage + 1 /\ block.y = margin

C23_BreakBeyondTwoMargins ==
    \A k \in 1..Len(SavedBlocks) :
        SavedBlocks[k].extent > pageHeight - 2 * margin - SavedBlocks[k].cursor
            => OnNewPage(SavedBlocks[k])

\* C23, amended: whenever a block about to be written needs more space
\* than pageHeight - margin - yPos (what is left above the bottom margin),
\* a new page is started before it and the block is written with the
\* cursor at margin.
C23_BreakBeyondBottomMargin ==
    \A k \in 1..Len(SavedBlocks) :
        SavedBlocks[k].extent > pageHeight - margin - SavedBlocks[k].cursor
            => OnNewPage(SavedBlocks[k])

\* C23's case: a saved PDF with a block that did not fit above the bottom
\* margin and was written at the top of a new page.
C23_Witness ==
    \E k \in 1..Len(SavedBlocks) :
        /\ SavedBlocks[k].extent > pageHeight - margin - SavedBlocks[k].cursor
        /\ SavedBlocks[k].page = 2
        /\ SavedBlocks[k].y = margin

\* C24: every block of a saved PDF (title, question text, option, answer
\* line) was written after a page-break check given that block's own
\* height; the block starts a new page, with the cursor at the top margin,
\* exactly when cursor + height exceeds pageHeight - margin, and is written
\* at the cursor on the current page otherwise; the blocks written for the
\* first n accepted questions are the same, on the same pages at the same
\* positions, whatever questions follow them.
BlockHeight(block) ==
    CASE block.kind = "title" -> 20
      [] block.kind = "question" -> LineCount(block.text[3]) * 7
      [] block.kind = "option" -> LineCount(block.text[3]) * 7
      [] block.kind = "answer" -> 6

IsPrefix(s, t) == Len(s) <= Len(t) /\ SubSeq(t, 1, Len(s)) = s

C24_CheckBeforeEveryBlock ==
    PdfSaved =>
        /\ \A k \in 1..Len(SavedBlocks) :
              LET block == SavedBlocks[k] IN
              /\ block.kind \in {"title", "question", "option", "answer"}
              /\ block.extent = BlockHeight(block)
              /\ IF block.cursor + block.extent > pageHeight - margin
                 THEN OnNewPage(block)
                 ELSE block.page = block.onPage /\ block.y = block.cursor
              /\ block.onPage = (IF k = 1 THEN 1 ELSE SavedBlocks[k - 1].page)
        /\ \A n \in 0..Len(acceptedQuestions) :
              IsPrefix(PdfContent(SubSeq(acceptedQuestions, 1, n)).blocks, SavedBlocks)

\* C24's case: a saved PDF in which one block ends exactly at the bottom
\* margin and stays on its page, and a later block starts page 2.
C24_Witness ==
    /\ PdfSaved
    /\ \E k, l \in 1..Len(SavedBlocks) :
          /\ k < l
          /\ SavedBlocks[k].cursor + SavedBlocks[k].extent = pageHeight - margin
          /\ SavedBlocks[k].page = 1
          /\ SavedBlocks[l].page = 2
          /\ SavedBlocks[l].y = margin

\* C25: the file a workflow holds is absent, or of a type the workflow
\* accepts (generator: PDF; scorer: PDF, PNG, JPEG) and of at most 10 MB;
\* and selecting a file of another type or a larger one leaves the
\* workflow and its uploader without a file and shows an error.
FileAllowed(file, acceptedMimeTypes) ==
    file = Null \/ (file.type \in acceptedMimeTypes /\ file.size <= 10 * 1024 * 1024)

HeldFilesAllowed ==
    /\ FileAllowed(uploadedFile, {"application/pdf"})
    /\ FileAllowed(uploaderFile, {"application/pdf"})
    /\ FileAllowed(scorerUploadedFile, {"application/pdf", "image/png", "image/jpeg"})
    /\ FileAllowed(scorerUploaderFile, {"application/pdf", "image/png", "image/jpeg"})

C25_HeldFileAllowed ==
    /\ []HeldFilesAllowed
    /\ [][\A f \in AllFiles :
            /\ (GenHandleFileChange(f) /\ ~FileAllowed(f, {"application/pdf"})) =>
                  /\ uploadedFile' = Null
                  /\ uploaderFile' = Null
                  /\ uploaderError' # NoError
            /\ (ScorerHandleFileChange(f)
                /\ ~FileAllowed(f, {"application/pdf", "image/png", "image/jpeg"})) =>
                  /\ scorerUploadedFile' = Null
                  /\ scorerUploaderFile' = Null
                  /\ scorerUploaderError' # NoError]_vars

\* C25's case: the generator refused a PNG and shows the error of the
\* type check, the scorer refused a PNG of more than 10 MB after holding
\* none and shows the error of the size check.
C25_Witness ==
    /\ uploadedFile = Null
    /\ uploaderError = <<"Invalid file type. Please upload a ", "PDF", " file.">>
    /\ scorerUploadedFile = Null
    /\ scorerUploaderError = <<"File is too large. Maximum size is ", "10", "MB.">>

\* C26: no Score request is sent with both file and questions null; and
\* submitting with no file and no question text issues no request, sets an
\* error message, leaves loading false and keeps the ScoreData.
RequestSent(r) == r.pc \in {"fetch", "json", "text"}

NoEmptyScoreRequest ==
    \A i \in 1..Len(scoreReqs) :
        RequestSent(scoreReqs[i]) =>
            ~(scoreReqs[i].payload.file = Null /\ scoreReqs[i].payload.questions = Null)

C26_NoEmptyScoreRequest ==
    /\ []NoEmptyScoreRequest
    /\ [][(handleSubmit /\ scorerUploadedFile = Null /\ questionText = "") =>
            /\ scoreReqs' = scoreReqs
            /\ scorerError' # NoError
            /\ scorerIsLoading' = scorerIsLoading
            /\ scoreData' = scoreData]_vars

\* The request C26 excludes: the payload of a sent request has neither a
\* file nor questions.
C26_EmptyRequestSent ==
    \E i \in 1..Len(scoreReqs) :
        /\ RequestSent(scoreReqs[i])
        /\ scoreReqs[i].uploadedFile = EmptyPdfFile
        /\ scoreReqs[i].payload = [file |-> Null, questions |-> Null]

\* C27: if the service and the file reader always settle, a workflow that
\* is loading eventually is not; and the step by which a request returns,
\* on success and on every failure, ends the loading and leaves the inputs
\* as they are, so that the control that starts a request is then disabled
\* only by its inputs.
C27_RequestsResolve ==
    /\ isLoading ~> ~isLoading
    /\ scorerIsLoading ~> ~scorerIsLoading
    /\ [][GenReturned =>
            /\ isLoading' = FALSE
            /\ UNCHANGED <<uploadedFile, numQuestions, bloomWeights>>
            /\ (step' = 3 /\ totalWeight # 0 /\ totalNumQuestions # 0) => GenerateEnabled'
            /\ step' = 4 => RegenerateEnabled']_vars
    /\ [][ScoreReturned =>
            /\ scorerIsLoading' = FALSE
            /\ UNCHANGED <<scorerUploadedFile, questionText>>
            /\ (scorerUploadedFile # Null \/ questionText # "") => ~SubmitDisabled']_vars

\* C27's case: a Generate request failed while its file was read and a
\* Score request failed too; neither workflow is loading, both keep their
\* inputs and both requests can be started again.
C27_Witness ==
    /\ error = <<"Failed to generate questions: ">> \o UnknownErrorMessage
    /\ scorerError # NoError
    /\ scorerError # <<"Please upload a file or paste questions.">>
    /\ ~isLoading /\ ~scorerIsLoading
    /\ genReqs = <<>> /\ scoreReqs = <<>>
    /\ step = 3 /\ GenerateShown /\ ~GenerateDisabled
    /\ ~SubmitDisabled

\* C28: percentage never divides by zero.  For every score vector of the
\* results shown (the totals and each question's scores), with the basis
\* its caller passes and with the default basis (0): the basis used is
\* positive; when the six entries sum to 0 it is 1, every percentage is 0
\* and no segment is drawn; when the sum is positive the basis is the sum.
ShownVectors ==
    IF scoreData = Null THEN {}
    ELSE {scoreData.totalScore}
         \cup {scoreData.detailedScores[i].score : i \in 1..Len(scoreData.detailedScores)}

BasisRight(scores, maxScore) ==
    LET basis == StackedBarMaxScore(scores, maxScore)
        total == SumOfScores(scores)
    IN  /\ basis > 0
        /\ \A category \in BloomCategories :
              /\ Percentage(scores, maxScore, category).den # 0
              /\ Percentage(scores, maxScore, category).den = basis
        /\ total = 0 =>
              /\ basis = 1
              /\ \A category \in BloomCategories :
                    /\ Percentage(scores, maxScore, category).num = 0
                    /\ StackedBar(scores, maxScore)[category] = Null
        /\ total > 0 => basis = total

C28_PercentageBasis ==
    \A scores \in ShownVectors :
        /\ BasisRight(scores, MaxScoreProp(scores))
        /\ BasisRight(scores, 0)

\* C28's case: results with a question whose six scores are 0 next to one
\* with scores; the first draws no segment, the second one of 75 per cent.
C28_Witness ==
    /\ scoreData # Null
    /\ Len(scoreData.detailedScores) = 2
    /\ SumOfScores(scoreData.detailedScores[1].score) = 0
    /\ \A category \in BloomCategories : DetailedBar(1)[category] = Null
    /\ DetailedBar(2)["Remembering"] = [num |-> 300, den |-> 4, divides |-> TRUE]
    /\ OverallBar["Remembering"] = [num |-> 300, den |-> 4, divides |-> TRUE]

\* C29: in every state of the generator workflow, step >= 2 implies that a
\* file is present.
C29_FilePresentBeyondStepOne == step >= 2 => uploadedFile # Null

\* The state C29 excludes, as a Generate response that outlived Start Over
\* leaves it: step 4 with questions and without a file.
C29_ReviewWithoutFile ==
    step = 4 /\ uploadedFile = Null /\ generatedQuestions # <<>> /\ genReqs = <<>>

\* C30: step 4 is entered only by a Generate response that succeeded: every
\* step from another step to step 4, and every step forward from step 3,
\* is the return of a successful handleGenerate; Next, Back and Start Over
\* never lead from another step to step 4, and Next is not available at
\* step 3.
C30_ReviewOnlyBySuccess ==
    /\ [][(step # 4 /\ step' = 4) => GenSucceeded]_vars
    /\ [][(step = 3 /\ step' > 3) => (step' = 4 /\ GenSucceeded)]_vars
    /\ [][(step # 4 /\ (NextStep \/ Back \/ StartOver)) => step' # 4]_vars
    /\ [](step = 3 => ~ENABLED NextStep)

\* C30's case: the workflow stands at step 4 with the questions of a
\* response, the file it sent still selected.
C30_Witness ==
    /\ step = 4
    /\ uploadedFile # Null
    /\ generatedQuestions # <<>>
    /\ genReqs = <<>>
    /\ error = NoError

\* C31: in each workflow loading and a shown error exclude each other:
\* while the workflow is loading, and so while a request of it is in
\* flight, its error message is null.
C31_LoadingExcludesError ==
    /\ isLoading => error = NoError
    /\ genReqs # <<>> => (isLoading /\ error = NoError)
    /\ scorerIsLoading => scorerError = NoError
    /\ scoreReqs # <<>> => (scorerIsLoading /\ scorerError = NoError)

\* C31's case: the generator is loading with a request in flight and shows
\* no error, while the scorer shows the error of a failed request and is
\* not loading.
C31_Witness ==
    /\ isLoading /\ genReqs # <<>> /\ error = NoError
    /\ ~scorerIsLoading /\ scoreReqs = <<>>
    /\ scorerError # NoError
    /\ scorerError[1] = "Failed to score paper: "

\* C32: in a saved PDF every block whose height is at most pageHeight -
\* 2 * margin lies inside the printable area: it is written with the
\* cursor at or below the top margin and ends at or above the bottom
\* margin, wherever the spacing added between blocks had moved the cursor.
C32_BlocksInsidePrintableArea ==
    \A k \in 1..Len(SavedBlocks) :
        SavedBlocks[k].extent <= pageHeight - 2 * margin =>
            /\ margin <= SavedBlocks[k].y
            /\ SavedBlocks[k].y + SavedBlocks[k].extent <= pageHeight - margin

\* C32's case: the spacing after a question had moved the cursor below the
\* bottom margin, and the next block was written at the top of a new page;
\* the same PDF has a block that ends exactly at the bottom margin.
C32_Witness ==
    /\ PdfSaved
    /\ \E k, l \in 1..Len(SavedBlocks) :
          /\ SavedBlocks[k].y + SavedBlocks[k].extent = pageHeight - margin
          /\ SavedBlocks[l].cursor > pageHeight - margin
          /\ SavedBlocks[l].extent <= pageHeight - 2 * margin
          /\ SavedBlocks[l].y = margin

\* C33: whenever the uploader is shown (step 1 of the generator), the file
\* it shows as selected is the file the workflow holds: both absent or
\* both the same file.
C33_UploaderShowsHeldFile == step = 1 => uploaderFile = uploadedFile

\* The state C33 excludes, as Next followed by Back leaves it: at step 1
\* the uploader shows its empty drop area while the workflow holds a file
\* and Next is enabled.
C33_EmptyUploaderFileHeld ==
    step = 1 /\ uploaderFile = Null /\ uploadedFile # Null /\ ~NextDisabled

\* C34: the two workflows share no state.  A step that changes anything of
\* the scorer leaves the generator and the tab as they are, a step that
\* changes anything of the generator leaves the scorer and the tab as they
\* are, and a change of tab leaves both; in particular the return of a
\* Score request, successful or not, changes nothing of the generator, and
\* the return of a Generate request nothing of the scorer.
C34_WorkflowsIndependent ==
    /\ [][scorerVars' # scorerVars => UNCHANGED <<genVars, activeTab>>]_vars
    /\ [][genVars' # genVars => UNCHANGED <<scorerVars, activeTab>>]_vars
    /\ [][activeTab' # activeTab => UNCHANGED <<genVars, scorerVars>>]_vars
    /\ [][ScoreReturned => UNCHANGED genVars]_vars
    /\ [][GenReturned => UNCHANGED scorerVars]_vars

\* C34's case: a Generate request and a Score request are in flight at the
\* same time, each with its response arrived and its body being read, the
\* scorer's tab being shown.
C34_Witness ==
    /\ activeTab = "scorer"
    /\ Len(genReqs) = 1 /\ genReqs[1].pc = "json"
    /\ Len(scoreReqs) = 1 /\ scoreReqs[1].pc = "json"
    /\ isLoading /\ scorerIsLoading

\* C35: exporting and changing the review filter read the workflow only.
\* A step of handleExportTXT, of handleExportPDF or of a filter button
\* leaves the step, the file, the counts, the weights, the question set
\* with every status, the loading flag, the error and the requests as
\* they are; the accepted questions are the same whatever the filter; a
\* file is saved only when a question is accepted, and an export with no
\* accepted question saves nothing and leaves the menu as it is.
WorkflowUnchanged ==
    UNCHANGED <<step, uploadedFile, numQuestions, bloomWeights, generatedQuestions,
                isLoading, error, genReqs>>

C35_ExportAndFilterReadOnly ==
    /\ [][(handleExportTXT \/ handleExportPDF) => WorkflowUnchanged]_vars
    /\ [][reviewFilter' # reviewFilter =>
            (WorkflowUnchanged /\ acceptedQuestions' = acceptedQuestions)]_vars
    /\ [][download' # Null =>
            (WorkflowUnchanged /\ AcceptedPositions(Len(generatedQuestions)) # {})]_vars
    /\ [][((handleExportTXT \/ handleExportPDF)
           /\ AcceptedPositions(Len(generatedQuestions)) = {}) =>
            (download' = Null /\ UNCHANGED isExportMenuOpen)]_vars
    /\ [](/\ Len(acceptedQuestions)
                = Cardinality(AcceptedPositions(Len(generatedQuestions)))
          /\ \A j \in AcceptedPositions(Len(generatedQuestions)) :
                acceptedQuestions[Cardinality(AcceptedPositions(j))]
                  = generatedQuestions[j])

\* C35's case: a text export saved while the filter shows the multiple-
\* choice questions only, of a set that keeps a pending question next to
\* the accepted, exported one.
C35_Witness ==
    /\ TxtSaved
    /\ reviewFilter = "MCQ"
    /\ Len(generatedQuestions) = 2
    /\ generatedQuestions[1].status = "accepted"
    /\ generatedQuestions[2].status = "pending"
    /\ Len(NumberedTexts) = 1
    /\ step = 4 /\ uploadedFile # Null

============================================================================
